---- MODULE Spec2Model ----
(***************************************************************************)
(* Model of ryzen_monitor_gui.py: the RyzenMonitorLib wrapper around the   *)
(* native sensing library and the RyzenMonitorGUI window that polls it.    *)
(*                                                                         *)
(* A c_float is a record [nan, t]: not-a-number, or the finite value t/10  *)
(* (t an integer number of tenths).  A Python Optional is a sequence of    *)
(* length 0 (None) or 1.  Widget texts are the strings the code builds.    *)
(*                                                                         *)
(* The shared object, when ctypes.CDLL can open it, is taken to export the *)
(* four functions of the library header.                                   *)
(***************************************************************************)
EXTENDS Integers, Sequences, FiniteSets, TLC

VARIABLES
    lib,              \* RyzenMonitorLib.lib: "None" or "CDLL"
    initialized,      \* RyzenMonitorLib.initialized
    hw,               \* the library's channel: "unopened", "open" (a ryzen_init
                      \* returned 0, no ryzen_cleanup since), "closed"
    calls,            \* how often each library function was invoked
    last,             \* the last operation: what it invoked, returned, raised
    pc,               \* the process: "start", "running", "closed", "exited", "aborted"
    timerActive,      \* RyzenMonitorGUI.timer is running
    events,           \* what the window's handlers did, in order
    sysdata,          \* RyzenMonitorGUI.sysdata
    sys_labels,       \* cpu_label, codename_label, cores_label, smu_label
    core_table,       \* RyzenMonitorGUI.core_table: its rows of 8 cells
    stats_labels,     \* the "Core Statistics (Calculated)" value labels
    constraints_w,    \* the "Constraints" value labels and progress bars
    memory_labels,    \* the "Memory Interface" value labels
    power_labels,     \* the "Power Consumption" value labels
    graphics_labels   \* the "Graphics" value labels

libVars == <<lib, initialized, hw, calls>>
pollVars == <<core_table, stats_labels, constraints_w, memory_labels,
              power_labels, graphics_labels>>
guiVars == <<pc, timerActive, events, sysdata, sys_labels>>
vars == <<lib, initialized, hw, calls, last, pc, timerActive, events, sysdata,
          sys_labels, core_table, stats_labels, constraints_w, memory_labels,
          power_labels, graphics_labels>>

---------------------------------------------------------------------------
(* Bounds and program constants *)

\* read_data's default max_cores: the length of the buffer handed to the library
max_cores == 32
\* the largest core count the modelled library reports
MaxRet == 2
\* how many times a wrapper-level run calls each library function
MaxCalls == 2
\* how many handler events a window run records
MaxEvents == 8

---------------------------------------------------------------------------
(* c_float values and Python's formatting of them *)

NaN == [nan |-> TRUE, t |-> 0]
F(t) == [nan |-> FALSE, t |-> t]

Abs(i) == IF i < 0 THEN -i ELSE i
Sign(x) == IF x.t < 0 THEN "-" ELSE ""

\* f"{x:.1f}"
fmt1(x) ==
    IF x.nan THEN "nan"
    ELSE Sign(x) \o ToString(Abs(x.t) \div 10) \o "." \o ToString(Abs(x.t) % 10)

\* f"{x:.3f}"
fmt3(x) ==
    IF x.nan THEN "nan" ELSE fmt1(x) \o "00"

\* f"{x:.0f}": round to the nearest whole number, a tie to the even one
fmt0(x) ==
    IF x.nan THEN "nan"
    ELSE LET q == Abs(x.t) \div 10
             r == Abs(x.t) % 10
             up == r > 5 \/ (r = 5 /\ q % 2 = 1)
         IN  Sign(x) \o ToString(IF up THEN q + 1 ELSE q)

\* Python's x > 0 on a float: false for not-a-number
GtZero(x) == ~x.nan /\ x.t > 0

\* Python's x != x: true exactly for not-a-number
NeSelf(x) == x.nan

\* int(a / b): the quotient truncated toward zero, b # 0
TruncDiv(a, b) ==
    IF (a >= 0) = (b > 0) THEN Abs(a) \div Abs(b) ELSE -(Abs(a) \div Abs(b))

---------------------------------------------------------------------------
(* The records of the library header, with the fields the window displays *)

\* CoreData
CoreRec(num, f, d, s, x) ==
    [core_num |-> num, frequency |-> f, power |-> x, voltage |-> x, temp |-> x,
     c0 |-> x, cc1 |-> x, cc6 |-> x, disabled |-> d, sleeping |-> s]

\* a CoreData the library did not write: ctypes zero-initialises the buffer
ZeroCore == CoreRec(0, F(0), 0, 0, F(0))

Pairs == <<"ppt", "tdc", "edc", "thm">>
PairNames == {Pairs[i] : i \in 1..Len(Pairs)}

\* ConstraintsData, from its peak_temp and a value and limit for each pair
ConsRec(peak, pv) ==
    [peak_temp |-> peak,
     ppt_value |-> pv["ppt"].value, ppt_limit |-> pv["ppt"].limit,
     tdc_value |-> pv["tdc"].value, tdc_limit |-> pv["tdc"].limit,
     edc_value |-> pv["edc"].value, edc_limit |-> pv["edc"].limit,
     thm_value |-> pv["thm"].value, thm_limit |-> pv["thm"].limit]

PairValue(c, p) ==
    CASE p = "ppt" -> c.ppt_value [] p = "tdc" -> c.tdc_value
      [] p = "edc" -> c.edc_value [] p = "thm" -> c.thm_value

PairLimit(c, p) ==
    CASE p = "ppt" -> c.ppt_limit [] p = "tdc" -> c.tdc_limit
      [] p = "edc" -> c.edc_limit [] p = "thm" -> c.thm_limit

\* MemoryData
MemRec(m, coupled) ==
    [fclk_freq |-> m, fclk_freq_eff |-> m, uclk_freq |-> m, memclk_freq |-> m,
     coupled_mode |-> coupled]

\* PowerData
PowerRec(m) ==
    [socket_power |-> m, total_core_power |-> m, vddcr_soc_power |-> m]

\* GraphicsData
GfxRec(m) == [gfx_freq |-> m, gfx_temp |-> m]

StatFields ==
    {"peak_core_frequency", "peak_core_temp", "peak_core_voltage",
     "avg_core_voltage", "avg_core_cc6", "total_core_power",
     "peak_core_voltage_smu", "package_cc6"}

\* CalculatedStats: every field b, but field f, which is v
StatsRec(b, f, v) == [g \in StatFields |-> IF g = f THEN v ELSE b]

\* SystemData
SysRec(name, code, smu, cores, ccds) ==
    [cpu_name |-> name, codename |-> code, smu_fw_ver |-> smu,
     enabled_cores_count |-> cores, ccds |-> ccds]

---------------------------------------------------------------------------
(* What the library can hand back: the inputs of the model *)

Flags == {0, 1}
FreqVals == {NaN, F(25), F(36004)}
BaseFreq == F(42005)
ConsVals == {NaN, F(-10), F(0), F(452)}
StatVals == {NaN, F(125)}
BaseVals == {NaN, F(18005)}
NormalPair == [value |-> F(452), limit |-> F(880)]
OtherPairs == {NormalPair, [value |-> NaN, limit |-> F(880)]}

\* k cores in the library's order, core s with the flags d, sl and frequency f
CoreList(k, s, f, d, sl, rev) ==
    [i \in 1..k |->
        LET num == IF rev THEN k - i ELSE i - 1
        IN  IF i = s THEN CoreRec(num, f, d, sl, F(12))
            ELSE CoreRec(num, BaseFreq, 0, 0, F(12))]

CoreLists(k) ==
    {CoreList(k, s, f, d, sl, rev) :
        s \in 1..k, f \in FreqVals, d \in Flags, sl \in Flags, rev \in BOOLEAN}

BaseCons == ConsRec(F(655), [p \in PairNames |-> NormalPair])

BaseBufs ==
    [cores |-> CoreList(1, 0, BaseFreq, 0, 0, FALSE), constraints |-> BaseCons,
     memory |-> MemRec(F(18005), 1), power |-> PowerRec(F(18005)),
     graphics |-> GfxRec(F(18005)), stats |-> StatsRec(F(125), "none", F(125))]

CoreScen ==
    {[BaseBufs EXCEPT !.cores = c] : c \in UNION {CoreLists(k) : k \in 1..MaxRet}}
      \cup {[BaseBufs EXCEPT !.cores = <<>>]}

ConsScen ==
    {[BaseBufs EXCEPT !.constraints =
        ConsRec(F(655), [q \in PairNames |->
                            IF q = p THEN [value |-> v, limit |-> l] ELSE o])] :
        p \in PairNames, v \in ConsVals, l \in ConsVals, o \in OtherPairs}

StatScen ==
    {[BaseBufs EXCEPT !.stats = StatsRec(b, f, v)] :
        b \in BaseVals, f \in StatFields, v \in StatVals}

MiscScen ==
    {[BaseBufs EXCEPT !.memory = MemRec(m, c), !.power = PowerRec(m),
                      !.graphics = GfxRec(m), !.constraints.peak_temp = m,
                      !.cores = <<CoreRec(7, m, 0, 0, m)>>] :
        m \in BaseVals, c \in Flags}

\* the buffer contents of a window's polls
Bufs == CoreScen \cup ConsScen \cup StatScen \cup MiscScen

\* the buffer contents of the wrapper-level runs
LibBufs ==
    {[BaseBufs EXCEPT !.cores = CoreList(k, 1, f, 1, 0, FALSE)] :
        k \in 0..MaxRet, f \in {NaN, BaseFreq}}

\* what ryzen_read_data returns, and what it left in the buffers: a positive
\* count is the number of cores it populated; a failure leaves any of LibBufs
FailCodes == {-1, 0}
Reads(B) ==
    {[n |-> Len(b.cores), bufs |-> b] : b \in {c \in B : Len(c.cores) > 0}}
      \cup {[n |-> n, bufs |-> b] : n \in FailCodes, b \in LibBufs}

\* the polls of a window run, and of a wrapper-level run
GuiReads == Reads(Bufs)
LibReads == Reads(LibBufs)

SysDatas == {SysRec("AMD Ryzen 9 5900X", "Vermeer", "56.58.0", 12, 2)}

---------------------------------------------------------------------------
(* RyzenMonitorLib *)

Min(a, b) == IF a < b THEN a ELSE b
Max(a, b) == IF a > b THEN a ELSE b

\* (CoreData * max_cores)() after the library populated its first entries
Buffer(populated) ==
    populated \o [i \in 1..(max_cores - Len(populated)) |-> ZeroCore]

\* Python's buf[:n]
SliceTo(buf, n) ==
    IF n >= 0 THEN SubSeq(buf, 1, Min(n, Len(buf)))
    ELSE SubSeq(buf, 1, Max(0, Len(buf) + n))

None == <<>>
Some(x) == <<x>>
NoData ==
    [cores |-> None, constraints |-> None, memory |-> None, power |-> None,
     graphics |-> None, stats |-> None]

Wrapper == [lib |-> lib, initialized |-> initialized, hw |-> hw, calls |-> calls]

\* what a wrapper method did: the wrapper after it, whether it returned true,
\* the library functions it invoked, the exception it raised
Done(w, flag, called, raised, rc, data, sys) ==
    [w |-> w, flag |-> flag, called |-> called, raised |-> raised, rc |-> rc,
     data |-> data, sys |-> sys]

\* load: ctypes.CDLL succeeds (ok) or raises, which load catches
load(w, ok) ==
    Done([w EXCEPT !.lib = IF ok THEN "CDLL" ELSE @], ok, <<>>, "none", 0,
         NoData, None)

\* the test of ryzen_init's return value
init_ok_always(rc) == TRUE
init_ok(rc) == rc = 0

\* init: rc is what ryzen_init returns
init(w, rc) ==
    IF w.lib = "None"
    THEN Done(w, FALSE, <<>>, "AttributeError", 0, NoData, None)
    ELSE Done([w EXCEPT !.initialized = IF init_ok(rc) THEN TRUE ELSE @,
                        !.hw = IF rc = 0 THEN "open" ELSE @,
                        !.calls.ryzen_init = @ + 1],
              init_ok(rc), <<"ryzen_init">>, "none", rc, NoData, None)

cleanup_keeps_flag(w) ==
    IF w.initialized
    THEN Done([w EXCEPT !.hw = "closed", !.calls.ryzen_cleanup = @ + 1],
              FALSE, <<"ryzen_cleanup">>, "none", 0, NoData, None)
    ELSE Done(w, FALSE, <<>>, "none", 0, NoData, None)

cleanup(w) ==
    IF w.initialized
    THEN Done([w EXCEPT !.initialized = FALSE, !.hw = "closed",
                        !.calls.ryzen_cleanup = @ + 1],
              FALSE, <<"ryzen_cleanup">>, "none", 0, NoData, None)
    ELSE Done(w, FALSE, <<>>, "none", 0, NoData, None)

\* get_system_info: rc is what ryzen_get_system_info returns, sd what it wrote
get_system_info(w, rc, sd) ==
    IF ~w.initialized
    THEN Done(w, FALSE, <<>>, "none", 0, NoData, None)
    ELSE Done([w EXCEPT !.calls.ryzen_get_system_info = @ + 1], rc = 0,
              <<"ryzen_get_system_info">>, "none", rc, NoData,
              IF rc = 0 THEN Some(sd) ELSE None)

\* the test of ryzen_read_data's return value
count_ok_nonzero(num_cores) == num_cores # 0
count_ok(num_cores) == num_cores > 0

\* read_data: r.n is what ryzen_read_data returns, r.bufs what it wrote
read_data(w, r) ==
    IF ~w.initialized
    THEN Done(w, FALSE, <<>>, "none", 0, NoData, None)
    ELSE Done(w, count_ok(r.n), <<"ryzen_read_data">>, "none", r.n,
              IF count_ok(r.n)
              THEN [cores |-> Some(SliceTo(Buffer(r.bufs.cores), r.n)),
                    constraints |-> Some(r.bufs.constraints),
                    memory |-> Some(r.bufs.memory),
                    power |-> Some(r.bufs.power),
                    graphics |-> Some(r.bufs.graphics),
                    stats |-> Some(r.bufs.stats)]
              ELSE NoData,
              None)

---------------------------------------------------------------------------
(* RyzenMonitorGUI: what update_data writes into the widgets *)

\* the frequency cell of a core
status_sleeping_first(core) ==
    IF core.sleeping # 0 THEN "Sleeping"
    ELSE IF core.disabled # 0 THEN "Disabled" ELSE fmt0(core.frequency)

status(core) ==
    IF core.disabled # 0 THEN "Disabled"
    ELSE IF core.sleeping # 0 THEN "Sleeping" ELSE fmt0(core.frequency)

\* the eight cells of a core's row
Row(core) ==
    <<"Core " \o ToString(core.core_num), status(core), fmt3(core.power),
      fmt3(core.voltage), fmt1(core.temp), fmt1(core.c0), fmt1(core.cc1),
      fmt1(core.cc6)>>

EmptyRow == <<"", "", "", "", "", "", "", "">>

\* QTableWidget.setRowCount: rows are cut off, or empty rows are added
setRowCount_grows_only(table, n) ==
    [i \in 1..Max(n, Len(table)) |-> IF i <= Len(table) THEN table[i] ELSE EmptyRow]

setRowCount(table, n) ==
    [i \in 1..n |-> IF i <= Len(table) THEN table[i] ELSE EmptyRow]

\* the core table after setRowCount(len(cores)) and the setItem calls
CoreTable(table, cores) ==
    LET t == setRowCount(table, Len(cores))
    IN  [i \in 1..Len(t) |-> IF i <= Len(cores) THEN Row(cores[i]) ELSE t[i]]

\* the "Core Statistics (Calculated)" labels
StatsLabels(stats) ==
    [peak_freq_value |-> fmt0(stats.peak_core_frequency) \o " MHz",
     peak_temp_value |-> fmt1(stats.peak_core_temp) \o " °C",
     peak_volt_value |-> fmt3(stats.peak_core_voltage) \o " V",
     avg_volt_value |-> fmt3(stats.avg_core_voltage) \o " V",
     avg_cc6_value |-> fmt1(stats.avg_core_cc6) \o " %",
     total_core_power_value |-> fmt3(stats.total_core_power) \o " W",
     smu_peak_volt_value |-> fmt3(stats.peak_core_voltage_smu) \o " V",
     pkg_cc6_value |-> IF ~NeSelf(stats.package_cc6)
                       THEN fmt1(stats.package_cc6) \o " %" ELSE "--"]

\* the argument of a progress bar's setValue, or the exception int() raises.
\* The quotient is the exact one: on the values of ConsVals and NormalPair it
\* is what binary floating point gives
Arg(raised, v) == [raised |-> raised, v |-> v]

Quotient(value, limit) ==
    IF value.nan \/ limit.nan THEN Arg("ValueError", 0)
    ELSE Arg("none", TruncDiv(value.t * 100, limit.t))

bar_arg(value, limit) ==
    IF GtZero(limit) THEN Quotient(value, limit) ELSE Arg("none", 0)

\* QProgressBar.setValue on the default range 0..100: a value outside the
\* range leaves the bar as it is
setValue(bar, v) == IF v < 0 \/ v > 100 THEN bar ELSE v

Unit(p) == CASE p = "ppt" -> " W" [] p = "thm" -> " C" [] OTHER -> " A"

\* the text of a constraint's value label
PairText(c, p) ==
    fmt1(PairValue(c, p)) \o " / " \o fmt0(PairLimit(c, p)) \o Unit(p)

\* the position in Pairs of the first bar whose argument raises, or 5
RaisesAt(c) ==
    LET bad == {i \in 1..Len(Pairs) :
                   bar_arg(PairValue(c, Pairs[i]), PairLimit(c, Pairs[i])).raised
                       # "none"}
    IN  IF bad = {} THEN Len(Pairs) + 1 ELSE CHOOSE i \in bad : \A j \in bad : i <= j

\* the "Constraints" widgets: the statements run in order up to the one that raises
ConstraintsW(cw, c) ==
    LET stop == RaisesAt(c)
        Pos(p) == CHOOSE i \in 1..Len(Pairs) : Pairs[i] = p
    IN  [peak_temp_con_value |-> fmt1(c.peak_temp) \o " °C",
         bar |-> [p \in PairNames |->
                    IF Pos(p) < stop
                    THEN setValue(cw.bar[p],
                                  bar_arg(PairValue(c, p), PairLimit(c, p)).v)
                    ELSE cw.bar[p]],
         value |-> [p \in PairNames |->
                    IF Pos(p) < stop THEN PairText(c, p) ELSE cw.value[p]]]

MemoryLabels(memory) ==
    [fclk_value |-> fmt0(memory.fclk_freq) \o " MHz",
     fclk_eff_value |-> fmt0(memory.fclk_freq_eff) \o " MHz",
     uclk_value |-> fmt0(memory.uclk_freq) \o " MHz",
     memclk_value |-> fmt0(memory.memclk_freq) \o " MHz",
     coupled_value |-> IF memory.coupled_mode # 0 THEN "ON" ELSE "OFF"]

PowerLabels(power) ==
    [socket_power_value |-> fmt3(power.socket_power) \o " W",
     core_power_value |-> fmt3(power.total_core_power) \o " W",
     soc_power_value |-> fmt3(power.vddcr_soc_power) \o " W"]

GraphicsLabels(graphics) ==
    [gfx_clk_value |-> fmt0(graphics.gfx_freq) \o " MHz",
     gfx_temp_value |-> fmt1(graphics.gfx_temp) \o " °C"]

\* the widgets update_data writes
Widgets ==
    [core_table |-> core_table, stats_labels |-> stats_labels,
     constraints_w |-> constraints_w, memory_labels |-> memory_labels,
     power_labels |-> power_labels, graphics_labels |-> graphics_labels,
     raised |-> "none"]

\* Python's "not cores": None or the empty list
not_cores(cores) == cores = None \/ cores[1] = <<>>

\* update_data on what read_data returned: the widgets after it, and the
\* exception it raised
update_data(u, data) ==
    IF not_cores(data.cores) THEN u
    ELSE LET stop == IF data.constraints = None THEN Len(Pairs) + 1
                     ELSE RaisesAt(data.constraints[1])
             ok == stop > Len(Pairs)
         IN  [core_table |-> CoreTable(u.core_table, data.cores[1]),
              stats_labels |-> IF data.stats # None
                               THEN StatsLabels(data.stats[1])
                               ELSE u.stats_labels,
              constraints_w |-> IF data.constraints # None
                                THEN ConstraintsW(u.constraints_w,
                                                  data.constraints[1])
                                ELSE u.constraints_w,
              memory_labels |-> IF ok /\ data.memory # None
                                THEN MemoryLabels(data.memory[1])
                                ELSE u.memory_labels,
              power_labels |-> IF ok /\ data.power # None
                               THEN PowerLabels(data.power[1])
                               ELSE u.power_labels,
              graphics_labels |-> IF ok /\ data.graphics # None
                                  THEN GraphicsLabels(data.graphics[1])
                                  ELSE u.graphics_labels,
              raised |-> IF ok THEN "none" ELSE "ValueError"]

\* update_system_info
update_system_info(sd) ==
    [cpu_label |-> "CPU: " \o sd.cpu_name,
     codename_label |-> "Codename: " \o sd.codename,
     cores_label |-> "Cores: " \o ToString(sd.enabled_cores_count)
                        \o " / CCDs: " \o ToString(sd.ccds),
     smu_label |-> "SMU: v" \o sd.smu_fw_ver]

---------------------------------------------------------------------------
(* The state after RyzenMonitorLib.__init__ and init_ui *)

NoOp ==
    [op |-> "none", prev |-> "none", pre |-> FALSE, rows |-> 0, called |-> <<>>,
     raised |-> "none", rc |-> 0, flag |-> FALSE, data |-> NoData, sys |-> None]

Init ==
    /\ lib = "None"
    /\ initialized = FALSE
    /\ hw = "unopened"
    /\ calls = [ryzen_init |-> 0, ryzen_cleanup |-> 0, ryzen_get_system_info |-> 0]
    /\ last = NoOp
    /\ pc = "start"
    /\ timerActive = FALSE
    /\ events = <<>>
    /\ sysdata = None
    /\ sys_labels = [cpu_label |-> "CPU: Loading...",
                     codename_label |-> "Codename: Loading...",
                     cores_label |-> "Cores: Loading...",
                     smu_label |-> "SMU Version: Loading..."]
    /\ core_table = <<>>
    /\ stats_labels = [peak_freq_value |-> "--", peak_temp_value |-> "--",
                       peak_volt_value |-> "--", avg_volt_value |-> "--",
                       avg_cc6_value |-> "--", total_core_power_value |-> "--",
                       smu_peak_volt_value |-> "--", pkg_cc6_value |-> "--"]
    /\ constraints_w = [peak_temp_con_value |-> "--",
                        bar |-> [p \in PairNames |-> -1],
                        value |-> [p \in PairNames |-> "--"]]
    /\ memory_labels = [fclk_value |-> "--", fclk_eff_value |-> "--",
                        uclk_value |-> "--", memclk_value |-> "--",
                        coupled_value |-> "--"]
    /\ power_labels = [socket_power_value |-> "--", core_power_value |-> "--",
                       soc_power_value |-> "--"]
    /\ graphics_labels = [gfx_clk_value |-> "--", gfx_temp_value |-> "--"]

\* the wrapper after a method, and the record of the operation: its name and
\* the one before it, the flag and the table's row count it found, the library
\* functions it invoked, the library's return code, what it returned or raised
Becomes(op, d) ==
    /\ lib' = d.w.lib
    /\ initialized' = d.w.initialized
    /\ hw' = d.w.hw
    /\ calls' = d.w.calls
    /\ last' = [op |-> op, prev |-> last.op, pre |-> initialized,
                rows |-> Len(core_table), called |-> d.called,
                raised |-> d.raised, rc |-> d.rc, flag |-> d.flag,
                data |-> d.data, sys |-> d.sys]

InitCodes == {0, -1}
SysCodes == {0, -1}

---------------------------------------------------------------------------
(* The wrapper's methods, called in any order *)

CallLoad ==
    /\ \E ok \in BOOLEAN : Becomes("load", load(Wrapper, ok))
    /\ UNCHANGED <<guiVars, pollVars>>

CallInit ==
    /\ lib = "None" \/ calls.ryzen_init < MaxCalls
    /\ \E rc \in InitCodes : Becomes("init", init(Wrapper, rc))
    /\ UNCHANGED <<guiVars, pollVars>>

CallCleanup ==
    /\ ~initialized \/ calls.ryzen_cleanup < MaxCalls
    /\ Becomes("cleanup", cleanup(Wrapper))
    /\ UNCHANGED <<guiVars, pollVars>>

CallGetSystemInfo ==
    /\ ~initialized \/ calls.ryzen_get_system_info < MaxCalls
    /\ \E rc \in SysCodes, sd \in SysDatas :
          Becomes("get_system_info", get_system_info(Wrapper, rc, sd))
    /\ UNCHANGED <<guiVars, pollVars>>

CallReadData ==
    /\ \E r \in LibReads : Becomes("read_data", read_data(Wrapper, r))
    /\ UNCHANGED <<guiVars, pollVars>>

NextLib ==
    \/ CallLoad
    \/ CallInit
    \/ CallCleanup
    \/ CallGetSystemInfo
    \/ CallReadData

SpecLib == Init /\ [][NextLib]_vars

---------------------------------------------------------------------------
(* The window: __init__ after init_ui, the timer's update_data, closeEvent *)

\* "if not self.lib.load(...)" and "if not self.lib.init()"
fatal_never(flag) == FALSE
fatal(flag) == ~flag

LoadEvent(d) == <<IF d.flag THEN "load:ok" ELSE "load:failed">>
InitEvent(d) ==
    IF d.called = <<>> THEN <<>>
    ELSE <<IF d.rc = 0 THEN "ryzen_init:0" ELSE "ryzen_init:nonzero">>
Dialog == <<"QMessageBox.critical", "sys.exit">>

\* RyzenMonitorGUI.__init__ from the load of the library on
GuiInit ==
    /\ pc = "start"
    /\ \E ok \in BOOLEAN, rc \in InitCodes, src \in SysCodes, sd \in SysDatas :
         LET l == load(Wrapper, ok)
             i == init(l.w, rc)
             g == get_system_info(i.w, src, sd)
         IN  IF fatal(l.flag)
             THEN /\ Becomes("__init__", l)
                  /\ events' = events \o LoadEvent(l) \o Dialog
                  /\ pc' = "exited"
                  /\ UNCHANGED <<timerActive, sysdata, sys_labels>>
             ELSE IF i.raised # "none"
             THEN /\ Becomes("__init__", i)
                  /\ events' = events \o LoadEvent(l)
                  /\ pc' = "aborted"
                  /\ UNCHANGED <<timerActive, sysdata, sys_labels>>
             ELSE IF fatal(i.flag)
             THEN /\ Becomes("__init__", i)
                  /\ events' = events \o LoadEvent(l) \o InitEvent(i) \o Dialog
                  /\ pc' = "exited"
                  /\ UNCHANGED <<timerActive, sysdata, sys_labels>>
             ELSE /\ Becomes("__init__", g)
                  /\ events' = events \o LoadEvent(l) \o InitEvent(i) \o g.called
                                  \o <<"timer.start">>
                  /\ sysdata' = g.sys
                  /\ sys_labels' = IF g.sys # None
                                   THEN update_system_info(g.sys[1])
                                   ELSE sys_labels
                  /\ timerActive' = TRUE
                  /\ pc' = "running"
    /\ UNCHANGED pollVars

\* update_data, were it to fetch the system information again on every poll
UpdateData_refetches ==
    /\ pc \in {"running", "closed"}
    /\ timerActive
    /\ \E r \in GuiReads, src \in SysCodes, sd \in SysDatas :
         \E d \in {read_data(Wrapper, r)} :
         \E g \in {get_system_info(d.w, src, sd)} :
         \E u \in {update_data(Widgets, d.data)} :
             /\ Becomes("update_data",
                        [d EXCEPT !.w = g.w, !.called = @ \o g.called,
                                  !.raised = u.raised])
             /\ core_table' = u.core_table
             /\ stats_labels' = u.stats_labels
             /\ constraints_w' = u.constraints_w
             /\ memory_labels' = u.memory_labels
             /\ power_labels' = u.power_labels
             /\ graphics_labels' = u.graphics_labels
             /\ sysdata' = g.sys
             /\ sys_labels' = IF g.sys # None THEN update_system_info(g.sys[1])
                              ELSE sys_labels
             /\ pc' = IF u.raised # "none" THEN "aborted" ELSE pc
             /\ timerActive' = (u.raised = "none")
    /\ UNCHANGED events

\* the timer's timeout, which comes only while the timer runs: update_data.
\* An exception that leaves a slot ends the process (PyQt6 calls qFatal)
UpdateData ==
    /\ pc \in {"running", "closed"}
    /\ timerActive
    /\ \E r \in GuiReads :
         \E d \in {read_data(Wrapper, r)} :
         \E u \in {update_data(Widgets, d.data)} :
             /\ Becomes("update_data", [d EXCEPT !.raised = u.raised])
             /\ core_table' = u.core_table
             /\ stats_labels' = u.stats_labels
             /\ constraints_w' = u.constraints_w
             /\ memory_labels' = u.memory_labels
             /\ power_labels' = u.power_labels
             /\ graphics_labels' = u.graphics_labels
             /\ pc' = IF u.raised # "none" THEN "aborted" ELSE pc
             /\ timerActive' = (u.raised = "none")
    /\ UNCHANGED <<events, sysdata, sys_labels>>

\* QTimer.stop
timer_stop_missing(active) == active
timer_stop(active) == FALSE

\* closeEvent
CloseEvent ==
    /\ pc \in {"running", "closed"}
    /\ Len(events) + 2 <= MaxEvents
    /\ LET d == cleanup(Wrapper)
       IN  /\ Becomes("closeEvent", d)
           /\ events' = events \o <<"timer.stop">> \o d.called
    /\ timerActive' = timer_stop(timerActive)
    /\ pc' = "closed"
    /\ UNCHANGED <<sysdata, sys_labels, pollVars>>

Next ==
    \/ GuiInit
    \/ UpdateData
    \/ CloseEvent

Spec == Init /\ [][Next]_vars

---------------------------------------------------------------------------
(* Properties *)

Invoked(f) == \E i \in 1..Len(last.called) : last.called[i] = f
Logged(e) == \E i \in 1..Len(events) : events[i] = e
Polled == last.op = "update_data" /\ last.data.cores # None
IsNumber(x) == ~x.nan

\* C1: a poll cycle in which ryzen_read_data returns a count <= 0 leaves the
\* core table and every statistics, constraints, memory, power and graphics
\* widget exactly as they were before the cycle.
FailedPollKeepsDisplay ==
    [][(last'.op = "update_data" /\ last'.rc <= 0)
          => (UNCHANGED pollVars /\ UNCHANGED sys_labels
              /\ last'.raised = "none")]_vars

\* a failed poll has run on a window that was displaying two cores
FailedPollAfterDisplay ==
    /\ last.op = "update_data"
    /\ last.called = <<"ryzen_read_data">>
    /\ last.rc = -1
    /\ last.rows = 2
    /\ Len(core_table) = 2
    /\ stats_labels.peak_freq_value = "12 MHz"

\* C2: two cleanup calls in succession invoke ryzen_cleanup at most once:
\* the second raises nothing, invokes nothing and leaves the wrapper as it
\* is; cleanup on a wrapper that was never initialized invokes nothing.
CleanupIdempotent ==
    [][(last'.op = "cleanup")
          => /\ last'.raised = "none"
             /\ last.op = "cleanup"
                   => /\ last'.called = <<>>
                      /\ Len(last.called) + Len(last'.called) <= 1
                      /\ UNCHANGED libVars
             /\ hw = "unopened"
                   => (last'.called = <<>> /\ UNCHANGED libVars)]_vars

\* cleanup has run right after the cleanup that released the library
SecondCleanupRan ==
    /\ last.op = "cleanup"
    /\ last.prev = "cleanup"
    /\ last.called = <<>>
    /\ hw = "closed"
    /\ calls.ryzen_cleanup = 1

\* C3: the flag is set only while a ryzen_init returned 0 with no cleanup
\* since; ryzen_read_data and ryzen_get_system_info are invoked only with
\* the flag set; read_data and get_system_info called without it return the
\* no-data result and invoke nothing.
PollingOnlyWhenInitialized ==
    /\ initialized => hw = "open"
    /\ (Invoked("ryzen_read_data") \/ Invoked("ryzen_get_system_info"))
          => last.pre
    /\ (last.op \in {"read_data", "get_system_info"} /\ ~last.pre)
          => (last.called = <<>> /\ last.data = NoData /\ last.sys = None)
    /\ (last.op = "init" /\ last.rc # 0 /\ ~last.pre) => ~initialized

\* read_data was called on a torn-down wrapper and returned the no-data result
ReadWhileTornDown ==
    /\ last.op = "read_data"
    /\ ~last.pre
    /\ hw = "closed"
    /\ last.called = <<>>
    /\ last.data = NoData

\* C4: once cleanup has torn down an initialized wrapper, no later sequence
\* of wrapper operations brings it back to the Initialized state or makes
\* ryzen_read_data callable again.
TeardownIsTerminal ==
    calls.ryzen_cleanup > 0 => (~initialized /\ ~Invoked("ryzen_read_data"))

\* C5: for every snapshot with a positive core count in which a float field is
\* not-a-number, update_data completes without raising, and no progress bar
\* is at 0 on account of a not-a-number value or limit.
NaNNeverCrashesNorZero ==
    Polled =>
        /\ last.raised = "none"
        /\ \A p \in PairNames :
              LET c == last.data.constraints[1]
              IN  (PairValue(c, p).nan \/ PairLimit(c, p).nan)
                      => constraints_w.bar[p] # 0

\* C6: for every constraint pair whose limit is <= 0, whatever its value,
\* after a poll that returned data the bar is exactly 0 and its label shows
\* this poll's value and limit; and the cycle raises only at a pair whose
\* limit is positive.
ZeroLimitGivesZeroBar ==
    Polled =>
        LET c == last.data.constraints[1]
        IN  /\ last.raised # "none"
                  => \E q \in PairNames :
                        PairValue(c, q).nan /\ GtZero(PairLimit(c, q))
            /\ \A p \in PairNames :
                  (IsNumber(PairLimit(c, p)) /\ PairLimit(c, p).t <= 0)
                      => /\ constraints_w.bar[p] = 0
                         /\ constraints_w.value[p] = PairText(c, p)
            /\ (c.ppt_value = F(452) /\ c.ppt_limit = F(0))
                  => (constraints_w.bar["ppt"] = 0
                      /\ constraints_w.value["ppt"] = "45.2 / 0 W")

\* the label that shows a CalculatedStats field
StatLabel(f) ==
    CASE f = "peak_core_frequency" -> stats_labels.peak_freq_value
      [] f = "peak_core_temp" -> stats_labels.peak_temp_value
      [] f = "peak_core_voltage" -> stats_labels.peak_volt_value
      [] f = "avg_core_voltage" -> stats_labels.avg_volt_value
      [] f = "avg_core_cc6" -> stats_labels.avg_cc6_value
      [] f = "total_core_power" -> stats_labels.total_core_power_value
      [] f = "peak_core_voltage_smu" -> stats_labels.smu_peak_volt_value
      [] f = "package_cc6" -> stats_labels.pkg_cc6_value

\* C7: after a successful poll, the label of every aggregate field that is
\* not-a-number shows the placeholder "--".
NaNStatsShowPlaceholder ==
    Polled =>
        \A f \in StatFields :
            last.data.stats[1][f].nan => StatLabel(f) = "--"

\* C8: after every poll cycle in which ryzen_read_data reports a positive
\* count n, the core table has exactly n rows, row i showing the i-th core
\* the library reported.
RowsMatchCoreCount ==
    (last.op = "update_data" /\ last.rc > 0) =>
        /\ Len(core_table) = last.rc
        /\ last.data.cores # None
        /\ Len(last.data.cores[1]) = last.rc
        /\ \A i \in 1..Len(core_table) :
              core_table[i][1]
                  = "Core " \o ToString(last.data.cores[1][i].core_num)

\* a poll reporting one core came after a cycle that showed two, the table
\* now holding that core's row alone
TableShrank ==
    /\ last.op = "update_data"
    /\ last.rc = 1
    /\ last.rows = 2
    /\ Len(core_table) = 1
    /\ core_table[1][1] = "Core 0"

\* C9: in every row update_data writes, the frequency cell is "Disabled" when
\* the disabled flag is set, "Sleeping" when the sleeping flag is set and the
\* disabled flag is not, and the frequency rounded to a whole number exactly
\* when neither flag is set.
FrequencyCellFollowsFlags ==
    Polled =>
        \A i \in 1..Len(core_table) :
            LET core == last.data.cores[1][i]
                cell == core_table[i][2]
            IN  /\ core.disabled # 0 => cell = "Disabled"
                /\ (core.disabled = 0 /\ core.sleeping # 0) => cell = "Sleeping"
                /\ (core.disabled = 0 /\ core.sleeping = 0)
                      <=> cell \notin {"Disabled", "Sleeping"}
                /\ (core.disabled = 0 /\ core.sleeping = 0)
                      => /\ cell = fmt0(core.frequency)
                         /\ core.frequency = F(36004) => cell = "3600"
                         /\ core.frequency = F(42005) => cell = "4200"
                         /\ core.frequency = F(25) => cell = "2"

\* a core with both flags set is shown as "Disabled", beside a running one
DisabledAndSleepingShown ==
    /\ Polled
    /\ Len(core_table) = 2
    /\ last.data.cores[1][1].disabled = 1
    /\ last.data.cores[1][1].sleeping = 1
    /\ core_table[1][2] = "Disabled"
    /\ core_table[2][2] = "4200"

\* C10: a failed load shows the error dialog and exits without calling
\* ryzen_init; a non-zero ryzen_init shows the dialog and exits; the dialog
\* comes before the exit, the timer is never started, and
\* ryzen_get_system_info and ryzen_read_data are never called.
FatalStartupDialogThenExit ==
    /\ Logged("load:failed")
          => (events = <<"load:failed", "QMessageBox.critical", "sys.exit">>
              /\ calls.ryzen_init = 0)
    /\ Logged("ryzen_init:nonzero")
          => events = <<"load:ok", "ryzen_init:nonzero", "QMessageBox.critical",
                        "sys.exit">>
    /\ (Logged("load:failed") \/ Logged("ryzen_init:nonzero"))
          => /\ pc = "exited"
             /\ ~timerActive
             /\ calls.ryzen_get_system_info = 0
             /\ last.op = "__init__"
             /\ ~Invoked("ryzen_read_data")
             /\ core_table = <<>>
    /\ (last.op = "__init__" /\ (~last.flag \/ last.rc # 0)
          /\ ~Invoked("ryzen_get_system_info"))
          => pc = "exited"

\* startup ended behind the dialog because ryzen_init returned non-zero
InitFailureExited ==
    /\ pc = "exited"
    /\ Logged("ryzen_init:nonzero")
    /\ lib = "CDLL"
    /\ ~initialized

\* how a run that reaches the timer starts
Startup == <<"load:ok", "ryzen_init:0", "ryzen_get_system_info", "timer.start">>

\* C11: ryzen_get_system_info is called exactly once per run, right after the
\* successful init and before the timer starts polling, and no poll cycle,
\* successful or failed, changes the stored record or the four labels.
SystemInfoFetchedOnce ==
    [][/\ calls'.ryzen_get_system_info <= 1
       /\ (pc' \in {"running", "closed"} \/ last'.op = "update_data")
             => /\ calls'.ryzen_get_system_info = 1
                /\ Len(events') >= Len(Startup)
                /\ SubSeq(events', 1, Len(Startup)) = Startup
       /\ last'.op = "update_data"
             => /\ UNCHANGED <<sysdata, sys_labels>>
                /\ calls'.ryzen_get_system_info = calls.ryzen_get_system_info
                /\ last'.called = <<"ryzen_read_data">>]_vars

\* a failed poll has followed a displayed one, the system labels still those
\* of the startup fetch
SystemInfoKeptAcrossPolls ==
    /\ last.op = "update_data"
    /\ last.prev = "update_data"
    /\ last.rc = 0
    /\ core_table # <<>>
    /\ sysdata # None
    /\ sys_labels.cpu_label = "CPU: AMD Ryzen 9 5900X"
    /\ sys_labels.cores_label = "Cores: 12 / CCDs: 2"
    /\ sys_labels.smu_label = "SMU: v56.58.0"
    /\ calls.ryzen_get_system_info = 1

\* C12: closeEvent stops the timer and then calls cleanup: a run that reached
\* the timer and is closed, once or several times, has invoked ryzen_cleanup
\* exactly once, right after the first timer.stop; once the window is closed
\* no update_data cycle starts, and once ryzen_cleanup has been invoked
\* ryzen_read_data is never invoked.
CloseStopsPollingThenReleases ==
    [][/\ last'.op = "closeEvent"
             => /\ ~timerActive'
                /\ ~initialized'
                /\ last'.called = IF initialized THEN <<"ryzen_cleanup">>
                                  ELSE <<>>
                /\ events' = events \o <<"timer.stop">> \o last'.called
                /\ calls'.ryzen_cleanup = 1
                /\ SubSeq(events', 1, Len(Startup) + 2)
                      = Startup \o <<"timer.stop", "ryzen_cleanup">>
       /\ (pc = "closed" \/ Logged("timer.stop"))
             => last'.op # "update_data"
       /\ calls.ryzen_cleanup > 0
             => \A i \in 1..Len(last'.called) :
                   last'.called[i] # "ryzen_read_data"]_vars

\* the window closed twice after a displayed poll: one cleanup, two stops
ClosedTwiceAfterPolling ==
    /\ pc = "closed"
    /\ last.op = "closeEvent"
    /\ core_table # <<>>
    /\ events = Startup \o <<"timer.stop", "ryzen_cleanup", "timer.stop">>
    /\ calls.ryzen_cleanup = 1
    /\ ~timerActive

\* C13: a poll result is all-or-nothing: read_data returns six present
\* records, the core list non-empty, or six absent ones; and an update_data
\* cycle that got the six records has refreshed every widget group from
\* them: the core rows, the statistics, the constraint labels, memory, power
\* and graphics all show this poll's values.
PollRefreshesAllOrNone ==
    last.op = "update_data" =>
        IF last.data.cores = None THEN last.data = NoData
        ELSE /\ \A f \in DOMAIN last.data : last.data[f] # None
             /\ last.data.cores[1] # <<>>
             /\ Len(core_table) = Len(last.data.cores[1])
             /\ stats_labels = StatsLabels(last.data.stats[1])
             /\ constraints_w.peak_temp_con_value
                   = fmt1(last.data.constraints[1].peak_temp) \o " °C"
             /\ \A p \in PairNames :
                   constraints_w.value[p] = PairText(last.data.constraints[1], p)
             /\ memory_labels = MemoryLabels(last.data.memory[1])
             /\ power_labels = PowerLabels(last.data.power[1])
             /\ graphics_labels = GraphicsLabels(last.data.graphics[1])

====
